---- MODULE Spec2Model ----
(***************************************************************************)
(* Verification model of the DevOps ETL repository's core:                 *)
(*   - SCDHandler.apply_scd_type2   (src/transformers/scd_handler.py)      *)
(*   - GitLabClient._fetch_*_with_retry and extract_gitlab_users           *)
(*                                  (src/extractors/gitlab/gitlab_client.py)*)
(*   - SonarQubeClient._paginated_get                                      *)
(*                          (src/extractors/sonarqube/sonarqube_client.py) *)
(*   - GitLabClient.extract and the gateways, the statistics, the users    *)
(*     transformer, the adapter's gl property, the normalizers and the     *)
(*     legacy _make_request, each in its own section below                 *)
(* Each component has its own specification over the shared variables.     *)
(***************************************************************************)
EXTENDS Integers, Sequences, FiniteSets, TLC

(***************************************************************************)
(* Bounds of the model.                                                    *)
(***************************************************************************)
MaxSnapLen == 2    \* longest new_data list handed to one call
MaxNow == 2        \* 'now' arguments are 1..MaxNow
MaxRows == 3       \* the history is followed until it holds MaxRows rows

\* Python's None in the end_date field.
None == 0

\* Keys and values are opaque to the code, which only compares them for
\* equality: two of each tell "same" from "different".
Keys == {"k1", "k2"}
Vals == {"a", "b"}

\* A record of new_data may lack a key field (new_row[k] raises KeyError)
\* or carry None in it (the key tuple then holds None).
MissingKey == "missing"
NullKey == "null"
\* the keys a row of the history can be stored under
StoredKeys == Keys \cup {NullKey}
Times == 1..MaxNow

Max(a, b) == IF a >= b THEN a ELSE b
Min(a, b) == IF a <= b THEN a ELSE b

VARIABLES
    \* ---- SCDHandler: the history kept by a caller of apply_scd_type2
    hist,          \* the historized rows, result of the last call fed back
    hist_again,    \* what applying the last snapshot once more to hist returns
    scd_exception, \* exception raised by the last call, "none" when it returned
    hist_valid_only, \* what the last call returns for the well-keyed records alone
    current_data_seen, \* the list passed as current_data, as its holder sees
                       \* it after the call
    \* ---- GitLabClient: one extract_gitlab_<resource> call and its retry loop
    max_retry_attempts,   \* self._max_retry_attempts (config "max_retries")
    retry_on_rate_limit,  \* self._retry_on_rate_limit
    resource,             \* "users", "projects" or "groups"; "none" before the call
    rt_pc,                \* "idle", "loop" (inside the for loop), "done"
    attempt,              \* the loop variable of the for loop
    list_calls,           \* number of <resource>.list calls made
    outcomes,             \* what each list call did, in order
    sleeps,               \* the arguments of time.sleep, in order
    fetch_raised,         \* exception leaving _fetch_<resource>_with_retry
    caller_sees,          \* what extract_gitlab_<resource> gives its caller
    \* ---- GitLabClient and its gateways: connection state and the last call
    is_connected,         \* BaseExtractor.is_connected
    connection_status,    \* self._connection_status
    gitlab_client,        \* self._gitlab_client is not None
    call,                 \* the public method called last, the lower bound it
                          \* was given and the keyword arguments extract got
    net_calls,            \* the remote operations of that call before any list
                          \* request of a retry loop, each with its outcome
    list_request,         \* resource and query parameters of the list requests
                          \* the retry loop of that call issues
    \* ---- SonarQubeClient.get(endpoint, params, paginate=True)
    server,        \* the endpoint: convention, behaviour, records held, page size
    params,        \* the params dict ("ps", "pageSize", "pageIndex", "p")
    page,          \* local 'page' of _paginated_get
    has_more,      \* local 'has_more' of _paginated_get
    pg_pc,         \* "idle", "loop" (inside the while loop), "done"
    requests,      \* page number carried by each request issued, in order
    yielded,       \* the items yielded so far, in order
    get_result,    \* what get gave its caller: a value returned or an exception
    \* ---- statistics: get_commit_stats (adapter), GitLabStatsExtractor
    stats_call,    \* the statistics method called last, "none" before any
    stats_records, \* the records it fetched (commits, merge requests, ...)
    stats,          \* the dictionary it returned
    \* ---- UsersTransformer.apply_scd_type2, its result fed back by the caller
    ut_existing,   \* existing_records as passed to the last call
    ut_existing_seen,   \* the same list as its holder sees it after the call
    ut_new,   \* new_records of the last call
    ut_historized,   \* the list the last call returned
    ut_calls,   \* calls made so far; the clock reads ut_calls at a call
    \* ---- legacy GitLabClient._make_request (backup/): one call and its while loop
    lg_max_retries,   \* self.max_retries
    lg_retries,   \* local retries
    lg_attempts,   \* self.gl.http_<method> calls made
    lg_pc,   \* "idle", "loop" (at the head of the while loop), "done"
    lg_result,   \* what the call gave its caller
    lg_sleeps,   \* the arguments of time.sleep, in order
    \* ---- adapter GitLabClient (src/adapters): the gl property and _connect
    ad_retry_count,   \* self.retry_count
    ad_gl,   \* self._gl: "None", or the Gitlab object, "unauthenticated" or "authenticated"
    ad_pc,   \* "idle", "connecting" (inside the for loop of _connect), "returned", "raised"
    ad_attempt,   \* the loop variable of _connect
    ad_result,   \* what the last access to gl gave
    ad_accesses,   \* accesses to gl made so far
    ad_auth_calls,   \* what each auth() call did, in order
    \* ---- two extractions interleaved on one GitLabClient
    retry_state,   \* for each call, the locals of its _fetch_<resource>_with_retry and what it did
    schedule,   \* the calls in the order their list requests were made
    \* ---- GitLabClient._normalize_<resource>_data applied twice to one payload
    nz_clock,   \* the wall clock, in whole seconds
    nz_pc,   \* "idle", "once", "twice": normalizations made
    nz_raw,   \* the kind of resource and the raw records normalized
    nz_first,   \* what the first normalization returned
    nz_second   \* what the second normalization returned

scd_vars == <<hist, hist_again, scd_exception, hist_valid_only,
              current_data_seen>>
rt_vars == <<max_retry_attempts, retry_on_rate_limit, resource, rt_pc, attempt,
             list_calls, outcomes, sleeps, fetch_raised, caller_sees>>
cl_vars == <<is_connected, connection_status, gitlab_client, call, net_calls,
             list_request>>
pg_vars == <<server, params, page, has_more, pg_pc, requests, yielded,
             get_result>>
st_vars == <<stats_call, stats_records, stats>>
ut_vars == <<ut_existing, ut_existing_seen, ut_new, ut_historized, ut_calls>>
lg_vars == <<lg_max_retries, lg_retries, lg_attempts, lg_pc, lg_result, lg_sleeps>>
ad_vars == <<ad_retry_count, ad_gl, ad_pc, ad_attempt, ad_result, ad_accesses,
             ad_auth_calls>>
il_vars == <<retry_state, schedule>>
nz_vars == <<nz_clock, nz_pc, nz_raw, nz_first, nz_second>>
vars == <<hist, hist_again, scd_exception, hist_valid_only, current_data_seen,
          max_retry_attempts, retry_on_rate_limit, resource, rt_pc, attempt,
          list_calls, outcomes, sleeps, fetch_raised, caller_sees,
          is_connected, connection_status, gitlab_client, call, net_calls,
          list_request,
          server, params, page, has_more, pg_pc, requests, yielded, get_result,
          stats_call, stats_records, stats,
          ut_existing, ut_existing_seen, ut_new, ut_historized, ut_calls,
          lg_max_retries, lg_retries, lg_attempts, lg_pc, lg_result, lg_sleeps,
          ad_retry_count, ad_gl, ad_pc, ad_attempt, ad_result, ad_accesses,
          ad_auth_calls,
          retry_state, schedule,
          nz_clock, nz_pc, nz_raw, nz_first, nz_second>>

(***************************************************************************)
(* SCDHandler.apply_scd_type2                                              *)
(*                                                                         *)
(* A row of the history is a record                                        *)
(*   [key, val, effective_date, end_date, is_current]                      *)
(* and a row of new_data a record [key, val]: key stands for the tuple of  *)
(* key_fields values and val for the remaining non-SCD fields.             *)
(***************************************************************************)
NewRows == [key : Keys, val : Vals]

\* all lists of at most n rows of new_data, duplicates of a key included
RECURSIVE SeqsUpTo(_, _)
SeqsUpTo(S, n) ==
    IF n = 0 THEN {<<>>}
    ELSE LET shorter == SeqsUpTo(S, n - 1)
         IN shorter \cup {Append(s, x) : s \in {t \in shorter : Len(t) = n - 1}, x \in S}

Snapshots == SeqsUpTo(NewRows, MaxSnapLen)

\* line 38: the dict comprehension keeps, for each key, the LAST row of
\* current_data whose is_current flag is truthy; 0 stands for "no entry".
\* The index holds references to the rows, modelled by their positions.
current_index(current_data) ==
    [k \in StoredKeys |->
        LET S == {i \in 1..Len(current_data) :
                     current_data[i].is_current /\ current_data[i].key = k}
        IN IF S = {} THEN 0 ELSE CHOOSE i \in S : \A j \in S : j <= i]

\* open_version without the write of the current flag's value True
open_version_not_flagged(new_row, t) ==
    [key |-> new_row.key, val |-> new_row.val,
     effective_date |-> t, end_date |-> None, is_current |-> FALSE]

\* lines 46-49 and 59-62: the copy of new_row opened at 'now'
open_version(new_row, t) ==
    [key |-> new_row.key, val |-> new_row.val,
     effective_date |-> t, end_date |-> None, is_current |-> TRUE]

\* line 53: some non-SCD field of new_row differs from the indexed row
changed(new_row, existing) == new_row.val # existing.val

\* scd_step with a closing write that reaches every row of the key, the
\* closed ones included.
scd_step_closing_all_rows(result, index, new_row, t) ==
    LET e == index[new_row.key]
    IN IF e = 0
       THEN Append(result, open_version(new_row, t))
       ELSE IF changed(new_row, result[e])
            THEN Append([i \in DOMAIN result |->
                            IF result[i].key = new_row.key
                            THEN [result[i] EXCEPT !.end_date = t,
                                                   !.is_current = FALSE]
                            ELSE result[i]],
                        open_version(new_row, t))
            ELSE result

\* lines 42-63: the body of the loop for one new_row.  The index is the one
\* built before the loop: it is never updated by the loop.
scd_step(result, index, new_row, t) ==
    LET e == index[new_row.key]
    IN IF e = 0
       THEN Append(result, open_version(new_row, t))
       ELSE IF changed(new_row, result[e])
            THEN Append([result EXCEPT ![e].end_date = t,
                                       ![e].is_current = FALSE],
                        open_version(new_row, t))
            ELSE result

RECURSIVE scd_loop(_, _, _, _)
scd_loop(result, index, rows, t) ==
    IF rows = <<>> THEN result
    ELSE scd_loop(scd_step(result, index, Head(rows), t), index, Tail(rows), t)

\* apply_scd_type2 inferring deletion from absence: the current row of a
\* key that new_data does not carry is closed.
apply_scd_type2_closing_absent(current_data, rows, t) ==
    LET result == scd_loop(current_data, current_index(current_data), rows, t)
    IN [i \in DOMAIN result |->
          IF i <= Len(current_data) /\ result[i].is_current
             /\ \A j \in DOMAIN rows : rows[j].key # result[i].key
          THEN [result[i] EXCEPT !.end_date = t, !.is_current = FALSE]
          ELSE result[i]]

\* lines 9-64
apply_scd_type2(current_data, rows, t) ==
    scd_loop(current_data, current_index(current_data), rows, t)

\* line 39: result is a shallow copy of current_data, so its first
\* len(current_data) entries are the row objects of current_data itself and
\* a write to one of them (lines 56-57) is a write to the caller's row
rows_of_current_data(current_data, result) == SubSeq(result, 1, Len(current_data))

\* One call of apply_scd_type2 by a caller that feeds the result back.
\* hist_again records what the same call, made once more on the result,
\* returns.
Apply ==
    /\ \E S \in Snapshots, t \in Times :
         LET result == apply_scd_type2(hist, S, t)
         IN /\ Len(result) <= MaxRows
            /\ hist' = result
            /\ hist_again' = apply_scd_type2(result, S, t)
            /\ hist_valid_only' = result
            /\ current_data_seen' = rows_of_current_data(hist, result)
    /\ scd_exception' = "none"
    /\ UNCHANGED <<rt_vars, cl_vars, pg_vars, st_vars, ut_vars, lg_vars,
                   ad_vars, il_vars, nz_vars>>

\* the records of new_data as they come from an extractor: some lack the
\* key field, some carry None in it
RawRows == [key : Keys \cup {MissingKey, NullKey}, val : Vals]
RawSnapshots == SeqsUpTo(RawRows, MaxSnapLen)

\* position of the first record whose key tuple cannot be built (line 42),
\* 0 when every record has its key fields
first_missing(rows) ==
    LET M == {i \in DOMAIN rows : rows[i].key = MissingKey}
    IN IF M = {} THEN 0 ELSE CHOOSE i \in M : \A j \in M : i <= j

\* the records that carry a value in every key field
well_keyed(rows) == SelectSeq(rows, LAMBDA r : r.key \in Keys)

\* lines 9-64 with the KeyError of line 42: the call either returns result
\* or raises at the first record without its key field.  The records before
\* it were processed: the rows they closed are the caller's own row objects
\* (result is a shallow copy of current_data), the rows they appended are
\* lost with result.
apply_scd_type2_call(current_data, rows, t) ==
    LET m == first_missing(rows)
    IN IF m = 0
       THEN [exception |-> "none",
             result |-> apply_scd_type2(current_data, rows, t),
             current_data |->
                 rows_of_current_data(current_data,
                                      apply_scd_type2(current_data, rows, t))]
       ELSE LET done == apply_scd_type2(current_data, SubSeq(rows, 1, m - 1), t)
            IN [exception |-> "KeyError",
                result |-> <<>>,
                current_data |-> rows_of_current_data(current_data, done)]

\* One call of apply_scd_type2 on records as extracted.  A caller whose call
\* raised keeps its current_data list, and the exception ends its run.
ApplyRaw ==
    /\ scd_exception = "none"
    /\ \E S \in RawSnapshots, t \in Times :
         LET c == apply_scd_type2_call(hist, S, t)
             kept == IF c.exception = "none" THEN c.result ELSE c.current_data
         IN /\ Len(kept) <= MaxRows
            /\ hist' = kept
            /\ scd_exception' = c.exception
            /\ hist_again' = IF c.exception = "none"
                             THEN apply_scd_type2(kept, S, t)
                             ELSE kept
            /\ hist_valid_only' = apply_scd_type2(hist, well_keyed(S), t)
            /\ current_data_seen' = c.current_data
    /\ UNCHANGED <<rt_vars, cl_vars, pg_vars, st_vars, ut_vars, lg_vars,
                   ad_vars, il_vars, nz_vars>>

InitSCD ==
    /\ hist = <<>>
    /\ hist_again = <<>>
    /\ scd_exception = "none"
    /\ hist_valid_only = <<>>
    /\ current_data_seen = <<>>

(***************************************************************************)
(* GitLabClient.extract_gitlab_users / _projects / _groups and their       *)
(* _fetch_<resource>_with_retry loops (the three are the same code).       *)
(*                                                                         *)
(* What one <resource>.list call can do:                                   *)
(*   "ok"         it returns the list                                      *)
(*   "get429"     gitlab.GitlabGetError with response_code 429             *)
(*   "get_other"  gitlab.GitlabGetError with another response_code         *)
(*   "auth"       gitlab.GitlabAuthenticationError                         *)
(*   "transient"  any other exception (connection error, timeout, 5xx      *)
(*                reported as GitlabListError or GitlabHttpError)          *)
(* GitlabAuthenticationError is not a GitlabGetError, so "auth" is handled *)
(* by the 'except Exception' clause like "transient".                      *)
(***************************************************************************)
MaxRetries == 3    \* max_retries is configured in 0..MaxRetries

Resources == {"users", "projects", "groups"}
ListOutcomes == {"ok", "get429", "get_other", "auth", "transient"}

\* src/core/constants.py
DEFAULT_GITLAB_MAX_RETRIES == 3
DEFAULT_GITLAB_RETRY_DELAY == 5

\* self._retry_delay_seconds, line 122
retry_delay_seconds == DEFAULT_GITLAB_RETRY_DELAY

RECURSIVE Pow2(_)
Pow2(n) == IF n = 0 THEN 1 ELSE 2 * Pow2(n - 1)

\* extract_gitlab_<resource>, lines 310-337: the 'except Exception' clause
\* turns every exception of the try block into a plain APIConnectionError.
extract_wrap(exc) == "APIConnectionError"

\* The loop ends by raising exc out of _fetch_<resource>_with_retry.
fetch_raises(exc) ==
    /\ rt_pc' = "done"
    /\ fetch_raised' = exc
    /\ caller_sees' = extract_wrap(exc)
    /\ UNCHANGED <<attempt, sleeps>>

\* time.sleep(d), then the next iteration of the for loop
sleep_and_continue(d) ==
    /\ sleeps' = Append(sleeps, d)
    /\ attempt' = attempt + 1
    /\ UNCHANGED <<rt_pc, fetch_raised, caller_sees>>

\* _handle_rate_limit_error(attempt), lines 377-389
handle_rate_limit_error ==
    IF attempt = max_retry_attempts - 1
    THEN fetch_raises("APIRateLimitError")
    ELSE sleep_and_continue(retry_delay_seconds * Pow2(attempt))

\* lines 369-373: the 'except Exception' clause of the loop
handle_other_exception(o) ==
    IF attempt = max_retry_attempts - 1
    THEN fetch_raises(o)
    ELSE sleep_and_continue(retry_delay_seconds)

\* extract_gitlab_<resource> is called: the connection is valid, the query
\* parameters are built and _fetch_<resource>_with_retry is entered.
StartExtract ==
    /\ rt_pc = "idle"
    /\ \E r \in Resources : resource' = r
    /\ rt_pc' = "loop"
    /\ attempt' = 0
    /\ UNCHANGED <<max_retry_attempts, retry_on_rate_limit, list_calls,
                   outcomes, sleeps, fetch_raised, caller_sees>>
    /\ UNCHANGED <<scd_vars, cl_vars, pg_vars, st_vars, ut_vars, lg_vars,
                   ad_vars, il_vars, nz_vars>>

\* One iteration of 'for attempt in range(self._max_retry_attempts)'.
Attempt ==
    /\ rt_pc = "loop"
    /\ attempt < max_retry_attempts
    /\ \E o \in ListOutcomes :
         /\ list_calls' = list_calls + 1
         /\ outcomes' = Append(outcomes, o)
         /\ CASE o = "ok" ->
                  /\ rt_pc' = "done"
                  /\ caller_sees' = "users_list"
                  /\ UNCHANGED <<attempt, sleeps, fetch_raised>>
              [] o = "get429" ->
                  IF retry_on_rate_limit
                  THEN handle_rate_limit_error
                  ELSE fetch_raises("GitlabGetError")
              [] o = "get_other" -> fetch_raises("GitlabGetError")
              [] OTHER -> handle_other_exception(o)
    /\ UNCHANGED <<max_retry_attempts, retry_on_rate_limit, resource>>
    /\ UNCHANGED <<scd_vars, cl_vars, pg_vars, st_vars, ut_vars, lg_vars,
                   ad_vars, il_vars, nz_vars>>

\* The for loop ran out of iterations: line 375.
LoopExhausted ==
    /\ rt_pc = "loop"
    /\ attempt >= max_retry_attempts
    /\ fetch_raises("APIConnectionError")
    /\ UNCHANGED <<max_retry_attempts, retry_on_rate_limit, resource,
                   list_calls, outcomes>>
    /\ UNCHANGED <<scd_vars, cl_vars, pg_vars, st_vars, ut_vars, lg_vars,
                   ad_vars, il_vars, nz_vars>>

InitRetry ==
    /\ max_retry_attempts \in 0..MaxRetries
    /\ retry_on_rate_limit \in BOOLEAN
    /\ resource = "none"
    /\ rt_pc = "idle"
    /\ attempt = 0
    /\ list_calls = 0
    /\ outcomes = <<>>
    /\ sleeps = <<>>
    /\ fetch_raised = "none"
    /\ caller_sees = "none"

(***************************************************************************)
(* GitLabClient: connection state, extract(kwargs), and the gateways built *)
(* on the client (GitLabUsersGateway, GitLabProjectsGateway).              *)
(*                                                                         *)
(* A dictionary of filters or parameters is a record of the two lower      *)
(* bounds the gateways know, NoDate standing for "key not in the dict".    *)
(***************************************************************************)
\* src/core/constants.py
DEFAULT_GITLAB_ITEMS_PER_PAGE == 100

NoDate == "none"
Dates == {"2024-01-01"}
BoundNames == {"since", "updated_after"}
Dicts == [since : Dates \cup {NoDate}, updated_after : Dates \cup {NoDate}]
EmptyDict == [since |-> NoDate, updated_after |-> NoDate]

\* the resource types extract knows (lines 166-171)
ExtractResources == {"users", "projects", "groups"}
\* resource_type values a caller passes; "issues" is listed in
\* SUPPORTED_GITLAB_RESOURCES but extract has no branch for it
ResourceTypes == {"absent", "users", "projects", "groups", "issues", "bogus"}

\* the GitLabProjectsGateway methods with a lower bound, the bound each takes
\* and the resource path each asks for (project_id left out)
ProjectMethods == {"get_project_commits", "get_project_merge_requests",
                   "get_project_issues", "get_project_pipelines"}
bound_of(m) == IF m = "get_project_commits" THEN "since" ELSE "updated_after"
path_of(m) ==
    CASE m = "get_project_commits" -> "projects/id/repository/commits"
      [] m = "get_project_merge_requests" -> "projects/id/merge_requests"
      [] m = "get_project_issues" -> "projects/id/issues"
      [] m = "get_project_pipelines" -> "projects/id/pipelines"

\* keyword arguments of extract; "absent" and EmptyDict for a keyword not passed
Kwargs == [resource_type : ResourceTypes, filters : Dicts,
           resource : {"absent"} \cup {path_of(m) : m \in ProjectMethods},
           params : Dicts]
NoKwargs == [resource_type |-> "absent", filters |-> EmptyDict,
             resource |-> "absent", params |-> EmptyDict]

\* what self._gitlab_client.auth() and the read of .user do
ConnectOutcomes == {"ok", "auth_error", "get_error", "other_error"}
\* what self._gitlab_client.user.get() does in validate_connection
CheckOutcomes == {"ok", "fail"}

\* establish_connection, lines 216-272.  The new gitlab.Gitlab object is
\* assigned before auth(); the except clauses raise without touching
\* _connection_status or is_connected.
establish_connection(e) ==
    [gitlab_client |-> TRUE,
     connection_status |-> IF e = "ok" THEN TRUE ELSE connection_status,
     is_connected |-> IF e = "ok" THEN TRUE ELSE is_connected,
     raised |-> CASE e = "ok" -> "none"
                  [] e = "auth_error" -> "APIAuthenticationError"
                  [] OTHER -> "APIConnectionError",
     net |-> <<[op |-> "auth", outcome |-> e]>>]

\* the connection left as it is, no remote operation
no_connection_change ==
    [gitlab_client |-> gitlab_client, connection_status |-> connection_status,
     is_connected |-> is_connected, raised |-> "none", net |-> <<>>]

\* validate_connection, lines 282-298
validate_connection(g, e) ==
    IF ~connection_status \/ ~gitlab_client
    THEN establish_connection(e)
    ELSE IF g = "ok"
         THEN [no_connection_change EXCEPT
                  !.net = <<[op |-> "user.get", outcome |-> g]>>]
         ELSE [establish_connection(e) EXCEPT
                  !.net = <<[op |-> "user.get", outcome |-> g],
                            [op |-> "auth", outcome |-> e]>>]

\* the connection fields and the remote operations after a connection step
set_connection(c) ==
    /\ gitlab_client' = c.gitlab_client
    /\ connection_status' = c.connection_status
    /\ is_connected' = c.is_connected
    /\ net_calls' = c.net

\* a call that ends without entering a retry loop
ends_with(result) ==
    /\ rt_pc' = "done"
    /\ caller_sees' = result
    /\ resource' = "none"
    /\ attempt' = 0
    /\ list_calls' = 0
    /\ outcomes' = <<>>
    /\ sleeps' = <<>>
    /\ fetch_raised' = "none"
    /\ list_request' = [resource |-> "none", params |-> EmptyDict]
    /\ UNCHANGED <<max_retry_attempts, retry_on_rate_limit>>

\* connect(), lines 144-151
Connect ==
    /\ rt_pc \in {"idle", "done"}
    /\ call' = [method |-> "connect", bound |-> NoDate, kwargs |-> NoKwargs]
    /\ \E e \in ConnectOutcomes :
         LET c == establish_connection(e)
         IN /\ set_connection(c)
            /\ ends_with(IF c.raised = "none" THEN "True" ELSE c.raised)
    /\ UNCHANGED <<scd_vars, pg_vars, st_vars, ut_vars, lg_vars, ad_vars,
                   il_vars, nz_vars>>

\* validate_connection() called by the client's user
ValidateConnection ==
    /\ rt_pc \in {"idle", "done"}
    /\ call' = [method |-> "validate_connection", bound |-> NoDate,
                kwargs |-> NoKwargs]
    /\ \E g \in CheckOutcomes, e \in ConnectOutcomes :
         LET c == validate_connection(g, e)
         IN /\ set_connection(c)
            /\ ends_with(IF c.raised = "none" THEN "True" ELSE c.raised)
    /\ UNCHANGED <<scd_vars, pg_vars, st_vars, ut_vars, lg_vars, ad_vars,
                   il_vars, nz_vars>>

\* close_connection(), lines 747-756
CloseConnection ==
    /\ rt_pc \in {"idle", "done"}
    /\ call' = [method |-> "close_connection", bound |-> NoDate,
                kwargs |-> NoKwargs]
    /\ gitlab_client' = FALSE
    /\ connection_status' = FALSE
    /\ is_connected' = FALSE
    /\ net_calls' = <<>>
    /\ ends_with("None")
    /\ UNCHANGED <<scd_vars, pg_vars, st_vars, ut_vars, lg_vars, ad_vars,
                   il_vars, nz_vars>>

\* extract, lines 163-173, with an unknown resource_type served as users
extract_dispatch_defaulting(kwargs) ==
    LET resource_type == IF kwargs.resource_type = "absent"
                         THEN "users" ELSE kwargs.resource_type
    IN IF resource_type \in ExtractResources THEN resource_type ELSE "users"

\* extract, lines 163-173: the extraction the keyword arguments select.
\* Only 'resource_type' and 'filters' are read.
extract_dispatch(kwargs) ==
    LET resource_type == IF kwargs.resource_type = "absent"
                         THEN "users" ELSE kwargs.resource_type
    IN IF resource_type \in ExtractResources THEN resource_type ELSE "ValueError"

\* extract, line 164: filters = kwargs.get('filters', {})
extract_filters(kwargs) == kwargs.filters

\* extract_gitlab_<resource>, lines 317-324: per_page and all, updated with
\* the filter
query_parameters(filter) ==
    [per_page |-> DEFAULT_GITLAB_ITEMS_PER_PAGE, all |-> TRUE,
     since |-> filter.since, updated_after |-> filter.updated_after]

\* extract(kwargs) up to the first iteration of the retry loop: dispatch,
\* validate_connection (outside the try block: what it raises reaches the
\* caller as it is), query parameters.
extract(kwargs, g, e) ==
    LET r == extract_dispatch(kwargs)
    IN IF r = "ValueError"
       THEN /\ ends_with("ValueError")
            /\ net_calls' = <<>>
            /\ UNCHANGED <<gitlab_client, connection_status, is_connected>>
       ELSE LET c == validate_connection(g, e)
            IN /\ set_connection(c)
               /\ IF c.raised # "none"
                  THEN ends_with(c.raised)
                  ELSE /\ rt_pc' = "loop"
                       /\ resource' = r
                       /\ list_request' =
                            [resource |-> r,
                             params |-> query_parameters(extract_filters(kwargs))]
                       /\ attempt' = 0
                       /\ list_calls' = 0
                       /\ outcomes' = <<>>
                       /\ sleeps' = <<>>
                       /\ fetch_raised' = "none"
                       /\ caller_sees' = "none"
                       /\ UNCHANGED <<max_retry_attempts, retry_on_rate_limit>>

\* extract(resource_type=..., filters=...) called by the client's user
Extract ==
    /\ rt_pc \in {"idle", "done"}
    /\ \E t \in ResourceTypes, f \in Dicts, g \in CheckOutcomes, e \in ConnectOutcomes :
         LET kwargs == [NoKwargs EXCEPT !.resource_type = t, !.filters = f]
         IN /\ call' = [method |-> "extract", bound |-> NoDate, kwargs |-> kwargs]
            /\ extract(kwargs, g, e)
    /\ UNCHANGED <<scd_vars, pg_vars, st_vars, ut_vars, lg_vars, ad_vars,
                   il_vars, nz_vars>>

\* GitLabProjectsGateway.get_project_commits(project_id, params, since) and
\* the three methods taking updated_after, lines 68-154: the bound is put in
\* 'parameters' and the client is called as
\* extract(resource=<path>, params=parameters).
gateway_kwargs(m, d) ==
    [NoKwargs EXCEPT !.resource = path_of(m),
                     !.params = [EmptyDict EXCEPT ![bound_of(m)] = d]]

ProjectsGatewayCall ==
    /\ rt_pc \in {"idle", "done"}
    /\ \E m \in ProjectMethods, d \in Dates \cup {NoDate},
          g \in CheckOutcomes, e \in ConnectOutcomes :
         /\ call' = [method |-> m, bound |-> d, kwargs |-> gateway_kwargs(m, d)]
         /\ extract(gateway_kwargs(m, d), g, e)
    /\ UNCHANGED <<scd_vars, pg_vars, st_vars, ut_vars, lg_vars, ad_vars,
                   il_vars, nz_vars>>

\* GitLabUsersGateway.get_users(params, updated_after), lines 39-53: connect
\* when not connected, one users.list call outside any retry loop, and every
\* exception answered with an empty list.
UsersGatewayGetUsers ==
    /\ rt_pc \in {"idle", "done"}
    /\ \E prm \in Dicts, e \in ConnectOutcomes, o \in ListOutcomes :
         LET c == IF ~is_connected THEN establish_connection(e)
                  ELSE no_connection_change
             listed == c.raised = "none"
         IN /\ call' = [method |-> "get_users", bound |-> NoDate,
                        kwargs |-> [NoKwargs EXCEPT !.params = prm]]
            /\ set_connection(
                 [c EXCEPT !.net = IF listed
                                   THEN c.net \o <<[op |-> "users.list", outcome |-> o]>>
                                   ELSE c.net])
            /\ ends_with(IF listed /\ o = "ok" THEN "users_list" ELSE "[]")
    /\ UNCHANGED <<scd_vars, pg_vars, st_vars, ut_vars, lg_vars, ad_vars,
                   il_vars, nz_vars>>

InitClient ==
    /\ is_connected = FALSE
    /\ connection_status = FALSE
    /\ gitlab_client = FALSE
    /\ call = [method |-> "none", bound |-> NoDate, kwargs |-> NoKwargs]
    /\ net_calls = <<>>
    /\ list_request = [resource |-> "none", params |-> EmptyDict]

(***************************************************************************)
(* SonarQubeClient._paginated_get, driven to exhaustion by                 *)
(* SonarQubeClient.get(..., paginate=True) (list(...) of the generator).   *)
(*                                                                         *)
(* The endpoint holds the records 1..total and serves them in pages of     *)
(* 'size' records.  Its answers follow one convention:                     *)
(*   "paging"       {"paging": {pageIndex, pageSize, total}, <key>: [...]} *)
(*   "paging_only"  {"paging": {...}} with no list-valued key              *)
(*   "list"         a bare list of records                                 *)
(*   "mapping"      a mapping without "paging"                             *)
(*   "empty_body"   a success status with an empty body, for which         *)
(*                  _make_request returns {}                               *)
(* A "honest" endpoint serves the page the request asks for; one that      *)
(* "ignores_page" does not read the page parameter it is sent and answers  *)
(* every request with its first page (pageIndex 1).                        *)
(***************************************************************************)
MaxTotal == 4      \* the endpoint holds 0..MaxTotal records ...
MaxSize == 3       \* ... served in pages of 1..MaxSize records

\* the instance of the pagination-completeness property: 205 records, 100 a page
ExampleTotal == 205

\* line 165 and the defaults of lines 185 and 213
DefaultPageSize == 100

Absent == 0

Conventions == {"paging", "paging_only", "list", "mapping", "empty_body"}
ServerKinds == {"honest", "ignores_page"}
Sizes == (1..MaxSize) \cup {DefaultPageSize}

Servers ==
    [conv : Conventions, kind : ServerKinds, total : 0..MaxTotal, size : Sizes]
    \cup [conv : Conventions, kind : ServerKinds, total : {ExampleTotal},
          size : {DefaultPageSize}]

\* the params dicts a caller passes: {}, {"ps": k}, {"pageSize": k} and
\* {"pageIndex": 1, "pageSize": k}
CallerParams ==
    {[ps |-> Absent, pageSize |-> Absent, pageIndex |-> Absent, p |-> Absent]}
    \cup {[ps |-> k, pageSize |-> Absent, pageIndex |-> Absent, p |-> Absent] : k \in Sizes}
    \cup {[ps |-> Absent, pageSize |-> k, pageIndex |-> Absent, p |-> Absent] : k \in Sizes}
    \cup {[ps |-> Absent, pageSize |-> k, pageIndex |-> 1, p |-> Absent] : k \in Sizes}

\* the requests a generator may issue in the model: more than any honest
\* endpoint of the model needs (MaxTotal + 1)
MaxRequests == MaxTotal + 2

\* lines 163-165
default_page_size(prm) ==
    IF prm.ps = Absent /\ prm.pageSize = Absent
    THEN [prm EXCEPT !.ps = DefaultPageSize]
    ELSE prm

\* lines 172-175
set_page(prm, pg) ==
    IF prm.pageIndex # Absent
    THEN [prm EXCEPT !.pageIndex = pg]
    ELSE [prm EXCEPT !.p = pg]

\* line 213: params.get("ps", params.get("pageSize", 100))
requested_size(prm) ==
    IF prm.ps # Absent THEN prm.ps
    ELSE IF prm.pageSize # Absent THEN prm.pageSize
    ELSE DefaultPageSize

\* the page number a request carries
requested_page(prm) == IF prm.pageIndex # Absent THEN prm.pageIndex ELSE prm.p

\* records of page q when the endpoint serves 'size' records a page
page_items(srv, q) ==
    LET first == (q - 1) * srv.size
        n == Max(0, Min(srv.size, srv.total - first))
    IN [i \in 1..n |-> first + i]

\* the endpoint's answer to a request (the value _make_request returns)
response(srv, prm) ==
    LET q == IF srv.kind = "honest" THEN requested_page(prm) ELSE 1
    IN [conv |-> srv.conv,
        paging |-> [pageIndex |-> q, pageSize |-> srv.size, total |-> srv.total],
        items |-> page_items(srv, q)]

\* the item yielded for a mapping that is not recognised (line 216): the
\* response itself ({} for an empty body), which is no record of the endpoint
TheMapping == 0

\* lines 181-217: the items yielded for a response
yield_of(resp) ==
    CASE resp.conv = "paging" -> resp.items
      [] resp.conv = "paging_only" -> <<>>
      [] resp.conv = "list" -> resp.items
      [] OTHER -> <<TheMapping>>

\* has_more with the comparison of line 199 off by one
has_more_after_inclusive(resp, prm) ==
    CASE resp.conv = "paging" ->
             (resp.paging.pageIndex * resp.paging.pageSize) <= resp.paging.total
      [] resp.conv = "paging_only" -> FALSE
      [] resp.conv = "list" -> Len(resp.items) >= requested_size(prm)
      [] OTHER -> FALSE

\* lines 181-217: has_more after a response
has_more_after(resp, prm) ==
    CASE resp.conv = "paging" ->
             (resp.paging.pageIndex * resp.paging.pageSize) < resp.paging.total
      [] resp.conv = "paging_only" -> FALSE
      [] resp.conv = "list" -> Len(resp.items) >= requested_size(prm)
      [] OTHER -> FALSE

\* get(endpoint, params, paginate=True) is called: lines 142-143, 163-168
PagStart ==
    /\ pg_pc = "idle"
    /\ \E srv \in Servers, prm \in CallerParams :
         /\ server' = srv
         /\ params' = default_page_size(prm)
    /\ page' = 1
    /\ has_more' = TRUE
    /\ pg_pc' = "loop"
    /\ UNCHANGED <<requests, yielded, get_result>>
    /\ UNCHANGED <<scd_vars, rt_vars, cl_vars, st_vars, ut_vars, lg_vars,
                   ad_vars, il_vars, nz_vars>>

\* one iteration of 'while has_more', lines 170-220
PagStep ==
    /\ pg_pc = "loop"
    /\ has_more
    /\ Len(requests) < MaxRequests
    /\ LET prm == set_page(params, page)
           resp == response(server, prm)
       IN /\ params' = prm
          /\ requests' = Append(requests, requested_page(prm))
          /\ yielded' = yielded \o yield_of(resp)
          /\ has_more' = has_more_after(resp, prm)
    /\ page' = page + 1
    /\ UNCHANGED <<server, pg_pc, get_result>>
    /\ UNCHANGED <<scd_vars, rt_vars, cl_vars, st_vars, ut_vars, lg_vars,
                   ad_vars, il_vars, nz_vars>>

\* the while loop ends and get returns the list of the yielded items
PagReturn ==
    /\ pg_pc = "loop"
    /\ ~has_more
    /\ pg_pc' = "done"
    /\ UNCHANGED <<server, params, page, has_more, requests, yielded, get_result>>
    /\ UNCHANGED <<scd_vars, rt_vars, cl_vars, st_vars, ut_vars, lg_vars,
                   ad_vars, il_vars, nz_vars>>

\* What self.session.request does: it returns a response with a status and
\* a body, or raises a requests.exceptions.RequestException (connection
\* failure, timeout, retries of the mounted adapter exhausted).
Statuses == {200, 204, 400, 401, 403, 404, 429, 500}
Bodies == {"empty", "json", "not_json"}
SessionOutcomes ==
    [kind : {"response"}, status : Statuses, body : Bodies]
    \cup {[kind |-> "exception", status |-> 0, body |-> "empty"]}
NoRequest == [kind |-> "none", status |-> 0, body |-> "empty"]

\* _make_request with 'except Exception' in place of
\* 'except requests.exceptions.RequestException'
make_request_wrapping_all(o) ==
    IF o.kind = "exception" \/ o.status >= 400 \/ o.body = "not_json"
    THEN {[raised |-> "ConnectionError", value |-> "none"]}
    ELSE IF o.body = "empty"
         THEN {[raised |-> "none", value |-> "{}"]}
         ELSE {[raised |-> "none", value |-> "json"]}

\* _make_request, lines 245-274: the ways the call can end for one outcome
\* of session.request.  The four typed errors are no RequestException, so
\* the except clause lets them through; raise_for_status raises an
\* HTTPError for the other statuses from 400 on.  response.json() on a body
\* that is not JSON raises a RequestException or a plain ValueError,
\* depending on the version of requests.  ConnectionError is the name the
\* module imports from src.core.exceptions (line 19).
make_request(o) ==
    IF o.kind = "exception"
    THEN {[raised |-> "ConnectionError", value |-> "none"]}
    ELSE CASE o.status \in {401, 403} ->
                 {[raised |-> "APIAuthenticationError", value |-> "none"]}
           [] o.status = 404 ->
                 {[raised |-> "ResourceNotFoundError", value |-> "none"]}
           [] o.status = 429 ->
                 {[raised |-> "APIRateLimitError", value |-> "none"]}
           [] o.status \notin {401, 403, 404, 429} /\ o.status >= 400 ->
                 {[raised |-> "ConnectionError", value |-> "none"]}
           [] OTHER ->
                 CASE o.body = "empty" -> {[raised |-> "none", value |-> "{}"]}
                   [] o.body = "json" -> {[raised |-> "none", value |-> "json"]}
                   [] OTHER -> {[raised |-> "ConnectionError", value |-> "none"],
                                [raised |-> "ValueError", value |-> "none"]}

\* get(endpoint, params) with paginate=False, lines 146: one request
GetSingle ==
    /\ pg_pc = "idle"
    /\ \E o \in SessionOutcomes :
         \E r \in make_request(o) :
            get_result' = [request |-> o, raised |-> r.raised, value |-> r.value]
    /\ pg_pc' = "single_done"
    /\ UNCHANGED <<server, params, page, has_more, requests, yielded>>
    /\ UNCHANGED <<scd_vars, rt_vars, cl_vars, st_vars, ut_vars, lg_vars,
                   ad_vars, il_vars, nz_vars>>

\* an iteration of 'while has_more' whose request fails: the exception of
\* _make_request leaves the generator and get
PagRaise ==
    /\ pg_pc = "loop"
    /\ has_more
    /\ Len(requests) < MaxRequests
    /\ \E o \in SessionOutcomes :
         \E r \in make_request(o) :
            /\ r.raised # "none"
            /\ get_result' = [request |-> o, raised |-> r.raised, value |-> r.value]
    /\ params' = set_page(params, page)
    /\ requests' = Append(requests, requested_page(set_page(params, page)))
    /\ pg_pc' = "raised"
    /\ UNCHANGED <<server, page, has_more, yielded>>
    /\ UNCHANGED <<scd_vars, rt_vars, cl_vars, st_vars, ut_vars, lg_vars,
                   ad_vars, il_vars, nz_vars>>

\* the client as constructed, before any paginated get
InitPag ==
    /\ server = [conv |-> "paging", kind |-> "honest", total |-> 0, size |-> DefaultPageSize]
    /\ params = [ps |-> Absent, pageSize |-> Absent, pageIndex |-> Absent, p |-> Absent]
    /\ page = 1
    /\ has_more = TRUE
    /\ pg_pc = "idle"
    /\ requests = <<>>
    /\ yielded = <<>>
    /\ get_result = [request |-> NoRequest, raised |-> "none", value |-> "none"]

(***************************************************************************)
(* Statistics: the adapter's GitLabClient.get_commit_stats                 *)
(* (src/adapters/gitlab/gitlab_client.py) and GitLabStatsExtractor         *)
(* (src/extractors/gitlab/stats_extractor.py).  Each method fetches a list *)
(* of records and folds it into a dictionary.  Durations are whole hours   *)
(* and an average is kept as the fraction the code divides.                *)
(***************************************************************************)
MaxCommits == 3    \* longest list of commits fetched
MaxRecords == 2    \* longest list of merge requests, issues or pipelines

\* a key that is not in the dictionary, or whose value is None or ''
NoField == -1

\* a commit as _to_dict gives it: 'author_email' and 'stats' may be missing,
\* and so may each field of 'stats'
Commits ==
    [author_email : {"absent", "dev@example.com"}, has_stats : {TRUE},
     additions : {NoField, 10, 20}, deletions : {NoField, 0, 5}]
    \cup [author_email : {"absent", "dev@example.com"}, has_stats : {FALSE},
          additions : {NoField}, deletions : {NoField}]
CommitLists == SeqsUpTo(Commits, MaxCommits)

\* dict.get(field, 0)
get_or_zero(v) == IF v = NoField THEN 0 ELSE v

\* the loop of get_commit_stats with a commit's stats read only when both
\* fields are there
commit_step_needing_both(commit, acc) ==
         LET complete == commit.has_stats /\ commit.additions # NoField
                            /\ commit.deletions # NoField
         IN [authors |-> IF commit.author_email # "absent"
                         THEN acc.authors \cup {commit.author_email}
                         ELSE acc.authors,
             total_additions |-> IF complete
                                 THEN acc.total_additions + commit.additions
                                 ELSE acc.total_additions,
             total_deletions |-> IF complete
                                 THEN acc.total_deletions + commit.deletions
                                 ELSE acc.total_deletions]

\* lines 273-280: one iteration of the loop over the commits
commit_step(commit, acc) ==
            [authors |-> IF commit.author_email # "absent"
                         THEN acc.authors \cup {commit.author_email}
                         ELSE acc.authors,
             total_additions |-> IF commit.has_stats
                                 THEN acc.total_additions + get_or_zero(commit.additions)
                                 ELSE acc.total_additions,
             total_deletions |-> IF commit.has_stats
                                 THEN acc.total_deletions + get_or_zero(commit.deletions)
                                 ELSE acc.total_deletions]

\* lines 273-280: the loop, commit after commit
RECURSIVE commit_fold(_, _)
commit_fold(commits, acc) ==
    IF commits = <<>> THEN acc
    ELSE commit_fold(Tail(commits), commit_step(Head(commits), acc))

\* get_commit_stats, lines 265-289, on the commits get_commits returned
get_commit_stats(commits) ==
    LET acc == commit_fold(commits, [authors |-> {}, total_additions |-> 0,
                                     total_deletions |-> 0])
    IN [total_commits |-> Len(commits),
        unique_authors |-> Cardinality(acc.authors),
        authors |-> acc.authors,
        total_additions |-> acc.total_additions,
        total_deletions |-> acc.total_deletions,
        net_changes |-> acc.total_additions - acc.total_deletions]

\* One statistics method is called, once, on the records its fetch returned.
GetCommitStats ==
    /\ stats_call = "none"
    /\ \E commits \in CommitLists :
         /\ stats_records' = commits
         /\ stats' = get_commit_stats(commits)
    /\ stats_call' = "get_commit_stats"
    /\ UNCHANGED <<scd_vars, rt_vars, cl_vars, pg_vars, ut_vars, lg_vars,
                   ad_vars, il_vars, nz_vars>>

\* GitLabStatsExtractor.get_commit_stats, lines 89-131: lines_changed is
\* created with three zeros (lines 93-97) and the loop over the commits
\* (lines 101-113) counts authors and days only; nothing reads a commit's
\* additions or deletions.
extractor_get_commit_stats(commits) ==
    [total_commits |-> Len(commits),
     lines_changed |-> [additions |-> 0, deletions |-> 0, total |-> 0]]

GetExtractorCommitStats ==
    /\ stats_call = "none"
    /\ \E commits \in CommitLists :
         /\ stats_records' = commits
         /\ stats' = extractor_get_commit_stats(commits)
    /\ stats_call' = "extractor_get_commit_stats"
    /\ UNCHANGED <<scd_vars, rt_vars, cl_vars, pg_vars, ut_vars, lg_vars, ad_vars,
                   il_vars, nz_vars>>

\* timestamps, in hours; NoField for a timestamp that is missing, None or ''
Stamps == {NoField, 0, 10}

\* the fields of a merge request, an issue and a pipeline that the counts and
\* the duration metrics read
MergeRequests == [state : {"opened", "merged", "closed"},
                  created_at : Stamps, merged_at : Stamps]
Issues == [state : {"opened", "closed"}, created_at : Stamps, closed_at : Stamps]
Pipelines == [status : {"success", "failed", "running"}, duration : {NoField, 0, 30}]

\* number of records of s that satisfy P
Count(s, P(_)) == Cardinality({i \in DOMAIN s : P(s[i])})

\* total of a list of numbers, added in list order
RECURSIVE Sum(_)
Sum(ns) == IF ns = <<>> THEN 0 ELSE Head(ns) + Sum(Tail(ns))

\* total of f over the records of s
Total(s, f(_)) == Sum([i \in DOMAIN s |-> f(s[i])])

\* lines 245-246, 371-372, 500-501: total / count when count > 0, else the
\* initial 0
average(total, count) ==
    IF count > 0 THEN [num |-> total, den |-> count] ELSE [num |-> 0, den |-> 1]

\* lines 205-212: the hours a merged merge request adds to total_time_to_merge
merge_hours(mr) ==
    IF mr.state = "merged" /\ mr.created_at # NoField /\ mr.merged_at # NoField
    THEN mr.merged_at - mr.created_at ELSE 0

\* get_merge_request_stats, lines 173-255: the counts by state and the
\* average time to merge (merged_count counts every merged merge request)
get_merge_request_stats(mrs) ==
    LET merged_count == Count(mrs, LAMBDA mr : mr.state = "merged")
    IN [total_mrs |-> Len(mrs),
        open_mrs |-> Count(mrs, LAMBDA mr : mr.state = "opened"),
        merged_mrs |-> merged_count,
        closed_mrs |-> Count(mrs, LAMBDA mr : mr.state = "closed"),
        avg_time_to_merge |-> average(Total(mrs, merge_hours), merged_count)]

\* lines 327-334
close_hours(issue) ==
    IF issue.state = "closed" /\ issue.created_at # NoField
       /\ issue.closed_at # NoField
    THEN issue.closed_at - issue.created_at ELSE 0

\* get_issue_stats, lines 296-389
get_issue_stats(issues) ==
    LET closed_count == Count(issues, LAMBDA issue : issue.state = "closed")
    IN [total_issues |-> Len(issues),
        open_issues |-> Count(issues, LAMBDA issue : issue.state = "opened"),
        closed_issues |-> closed_count,
        avg_time_to_close |-> average(Total(issues, close_hours), closed_count)]

\* lines 460-465: 'duration' counts when the key is there and its value truthy
pipeline_duration(pipeline) ==
    IF pipeline.status \in {"success", "failed"} /\ pipeline.duration # NoField
       /\ pipeline.duration # 0
    THEN pipeline.duration ELSE 0

\* get_pipeline_stats, lines 429-513
get_pipeline_stats(pipelines) ==
    LET completed_pipelines ==
            Count(pipelines, LAMBDA pl : pl.status \in {"success", "failed"})
    IN [total_pipelines |-> Len(pipelines),
        success |-> Count(pipelines, LAMBDA pl : pl.status = "success"),
        failed |-> Count(pipelines, LAMBDA pl : pl.status = "failed"),
        avg_duration |-> average(Total(pipelines, pipeline_duration),
                                 completed_pipelines)]

GetMergeRequestStats ==
    /\ stats_call = "none"
    /\ \E mrs \in SeqsUpTo(MergeRequests, MaxRecords) :
         /\ stats_records' = mrs
         /\ stats' = get_merge_request_stats(mrs)
    /\ stats_call' = "get_merge_request_stats"
    /\ UNCHANGED <<scd_vars, rt_vars, cl_vars, pg_vars, ut_vars, lg_vars,
                   ad_vars, il_vars, nz_vars>>

GetIssueStats ==
    /\ stats_call = "none"
    /\ \E issues \in SeqsUpTo(Issues, MaxRecords) :
         /\ stats_records' = issues
         /\ stats' = get_issue_stats(issues)
    /\ stats_call' = "get_issue_stats"
    /\ UNCHANGED <<scd_vars, rt_vars, cl_vars, pg_vars, ut_vars, lg_vars,
                   ad_vars, il_vars, nz_vars>>

GetPipelineStats ==
    /\ stats_call = "none"
    /\ \E pipelines \in SeqsUpTo(Pipelines, MaxRecords) :
         /\ stats_records' = pipelines
         /\ stats' = get_pipeline_stats(pipelines)
    /\ stats_call' = "get_pipeline_stats"
    /\ UNCHANGED <<scd_vars, rt_vars, cl_vars, pg_vars, ut_vars, lg_vars,
                   ad_vars, il_vars, nz_vars>>

InitStats ==
    /\ stats_call = "none"
    /\ stats_records = <<>>
    /\ stats = <<>>

\* every configuration of the GitLab client
(***************************************************************************)
(* UsersTransformer.apply_scd_type2                                        *)
(*                                                                         *)
(* A record of existing_records is [key, state, valid_from, valid_to] and  *)
(* a record of new_records [key, state]: key stands for the tuple of       *)
(* key_fields values and state for the value of scd_field.  The other      *)
(* fields of a user are never read by the method.                          *)
(***************************************************************************)
MaxUtCalls == 3    \* calls followed

UserStates == {"active", "blocked"}
NewRecords == [key : Keys, state : UserStates]
UtSnapshots == SeqsUpTo(NewRecords, MaxSnapLen)

\* the orders in which a caller may hold the rows of a history
Reorderings(rows) ==
    {[i \in DOMAIN rows |-> rows[p[i]]] : p \in Permutations(DOMAIN rows)}

\* line 52: the dict comprehension keeps, for each key, the LAST record of
\* existing_records, whether it is open or closed; 0 stands for "no entry".
existing_lookup(existing_records) ==
    [k \in Keys |->
        LET S == {i \in DOMAIN existing_records : existing_records[i].key = k}
        IN IF S = {} THEN 0 ELSE CHOOSE i \in S : \A j \in S : j <= i]

\* lines 62-63: the new record with its validity fields written
with_validity(new, now) ==
    [key |-> new.key, state |-> new.state, valid_from |-> now, valid_to |-> None]

\* lines 54-64: the body of the loop for one new record.  'old' is a row
\* object of existing_records, so the write of line 59 is seen by the
\* holder of that list as well.
ut_step(st, lookup, new, now) ==
    LET e == lookup[new.key]
    IN IF e = 0
       THEN [historized |-> Append(st.historized, with_validity(new, now)),
             existing |-> st.existing]
       ELSE IF st.existing[e].state # new.state
            THEN LET old == [st.existing[e] EXCEPT !.valid_to = now]
                 IN [historized |-> Append(Append(st.historized, old),
                                           with_validity(new, now)),
                     existing |-> [st.existing EXCEPT ![e] = old]]
            ELSE st

RECURSIVE ut_loop(_, _, _, _)
ut_loop(st, lookup, new_records, now) ==
    IF new_records = <<>> THEN st
    ELSE ut_loop(ut_step(st, lookup, Head(new_records), now), lookup,
                 Tail(new_records), now)

\* lines 50-65: historized starts empty and receives only the records the
\* loop appends
users_apply_scd_type2(existing_records, new_records, now) ==
    ut_loop([historized |-> <<>>, existing |-> existing_records],
            existing_lookup(existing_records), new_records, now)

\* One call by a caller that feeds the returned list back as
\* existing_records, in the order returned or in another one.
UtApply ==
    /\ ut_calls < MaxUtCalls
    /\ \E existing \in Reorderings(ut_historized), S \in UtSnapshots :
         LET out == users_apply_scd_type2(existing, S, ut_calls + 1)
         IN /\ ut_existing' = existing
            /\ ut_existing_seen' = out.existing
            /\ ut_new' = S
            /\ ut_historized' = out.historized
    /\ ut_calls' = ut_calls + 1
    /\ UNCHANGED <<scd_vars, rt_vars, cl_vars, pg_vars, st_vars, lg_vars,
                   ad_vars, il_vars, nz_vars>>

InitUt ==
    /\ ut_existing = <<>>
    /\ ut_existing_seen = <<>>
    /\ ut_new = <<>>
    /\ ut_historized = <<>>
    /\ ut_calls = 0

(***************************************************************************)
(* The legacy GitLabClient._make_request                                   *)
(* (backup/src/extractors/gitlab/gitlab_client_legacy.py).                 *)
(*                                                                         *)
(* What one self.gl.http_<method> call can do, by the except clause that   *)
(* takes it:                                                               *)
(*   "ok"                it returns the response                           *)
(*   "auth"              GitlabAuthenticationError                         *)
(*   "rate_limit"        GitlabRateLimitError without a retry_after        *)
(*   "rate_limit_after"  GitlabRateLimitError carrying retry_after         *)
(*   "connection"        GitlabConnectionError                             *)
(*   "gitlab_error"      any other GitlabError                             *)
(*   "unexpected"        any other exception, the ValueError of an         *)
(*                       unsupported method included                       *)
(***************************************************************************)
LegacyOutcomes == {"ok", "auth", "rate_limit", "rate_limit_after",
                   "connection", "gitlab_error", "unexpected"}

\* lines 32-33
DEFAULT_MAX_RETRIES == 3
DEFAULT_RETRY_DELAY == 5

\* the retry_after a rate-limit error carries (line 424)
RetryAfter == 7

\* legacy_attempt retrying a retryable error whether or not retries are left
legacy_attempt_retrying_always(retries, max_retries, o) ==
    CASE o = "ok" ->
           [ends |-> TRUE, result |-> "response", retries |-> retries, slept |-> <<>>]
      [] o = "auth" ->
           [ends |-> TRUE, result |-> "APIAuthenticationError",
            retries |-> retries, slept |-> <<>>]
      [] o \in {"rate_limit", "rate_limit_after"} ->
           [ends |-> FALSE, result |-> "none", retries |-> retries + 1,
            slept |-> <<IF o = "rate_limit_after" THEN RetryAfter
                        ELSE DEFAULT_RETRY_DELAY>>]
      [] o \in {"connection", "gitlab_error"} ->
           [ends |-> FALSE, result |-> "none", retries |-> retries + 1,
            slept |-> <<DEFAULT_RETRY_DELAY>>]
      [] OTHER ->
           [ends |-> TRUE, result |-> "APIConnectionError",
            retries |-> retries, slept |-> <<>>]

\* lines 401-456: the body of the while loop for one outcome of the http
\* call: whether the call ends and with what, the new value of retries and
\* the sleep made
legacy_attempt(retries, max_retries, o) ==
    CASE o = "ok" ->
           [ends |-> TRUE, result |-> "response", retries |-> retries, slept |-> <<>>]
      [] o = "auth" ->
           [ends |-> TRUE, result |-> "APIAuthenticationError",
            retries |-> retries, slept |-> <<>>]
      [] o \in {"rate_limit", "rate_limit_after"} ->
           IF retries < max_retries
           THEN [ends |-> FALSE, result |-> "none", retries |-> retries + 1,
                 slept |-> <<IF o = "rate_limit_after" THEN RetryAfter
                             ELSE DEFAULT_RETRY_DELAY>>]
           ELSE [ends |-> TRUE, result |-> "APIRateLimitError",
                 retries |-> retries, slept |-> <<>>]
      [] o \in {"connection", "gitlab_error"} ->
           IF retries < max_retries
           THEN [ends |-> FALSE, result |-> "none", retries |-> retries + 1,
                 slept |-> <<DEFAULT_RETRY_DELAY>>]
           ELSE [ends |-> TRUE, result |-> "APIConnectionError",
                 retries |-> retries, slept |-> <<>>]
      [] OTHER ->
           [ends |-> TRUE, result |-> "APIConnectionError",
            retries |-> retries, slept |-> <<>>]

\* _make_request is called on a connected client configured with
\* max_retries = n: lines 389-398
LegacyStart ==
    /\ lg_pc = "idle"
    /\ \E n \in 0..MaxRetries : lg_max_retries' = n
    /\ lg_retries' = 0
    /\ lg_pc' = "loop"
    /\ UNCHANGED <<lg_attempts, lg_result, lg_sleeps>>
    /\ UNCHANGED <<scd_vars, rt_vars, cl_vars, pg_vars, st_vars, ut_vars,
                   ad_vars, il_vars, nz_vars>>

\* The test of 'while retries <= self.max_retries' and, when it passes, one
\* iteration; when it fails the method ends without a return statement and
\* gives None.
LegacyIterate ==
    /\ lg_pc = "loop"
    /\ IF lg_retries <= lg_max_retries
       THEN \E o \in LegacyOutcomes :
              LET a == legacy_attempt(lg_retries, lg_max_retries, o)
              IN /\ lg_attempts' = lg_attempts + 1
                 /\ lg_retries' = a.retries
                 /\ lg_sleeps' = lg_sleeps \o a.slept
                 /\ lg_result' = a.result
                 /\ lg_pc' = IF a.ends THEN "done" ELSE "loop"
       ELSE /\ lg_pc' = "done"
            /\ lg_result' = "None"
            /\ UNCHANGED <<lg_attempts, lg_retries, lg_sleeps>>
    /\ UNCHANGED lg_max_retries
    /\ UNCHANGED <<scd_vars, rt_vars, cl_vars, pg_vars, st_vars, ut_vars,
                   ad_vars, il_vars, nz_vars>>

InitLegacy ==
    /\ lg_max_retries = DEFAULT_MAX_RETRIES
    /\ lg_retries = 0
    /\ lg_attempts = 0
    /\ lg_pc = "idle"
    /\ lg_result = "none"
    /\ lg_sleeps = <<>>

(***************************************************************************)
(* The adapter GitLabClient (src/adapters/gitlab/gitlab_client.py): the    *)
(* gl property and _connect.                                               *)
(*                                                                         *)
(* What one iteration of _connect can do after it has assigned a new       *)
(* Gitlab object to self._gl:                                              *)
(*   "ok"          auth() returns                                          *)
(*   "auth_error"  auth() raises GitlabAuthenticationError                 *)
(*   "error"       auth() raises another GitlabError or a                  *)
(*                 requests.RequestException                               *)
(***************************************************************************)
MaxAccesses == 4      \* accesses to gl followed
MaxRetryCount == 5    \* retry_count is configured in 0..MaxRetryCount

AuthOutcomes == {"ok", "auth_error", "error"}

\* line 66: 'return self._gl', by what self._gl holds
gl_value(gl) ==
    CASE gl = "None" -> "None"
      [] gl = "authenticated" -> "authenticated_client"
      [] OTHER -> "unauthenticated_client"

\* An access to the gl property, lines 64-66: _connect is entered only when
\* self._gl is None.  retry_count is fixed by the constructor, before the
\* first access.
GlAccess ==
    /\ ad_pc \in {"idle", "returned", "raised"}
    /\ ad_accesses < MaxAccesses
    /\ ad_accesses' = ad_accesses + 1
    /\ IF ad_accesses = 0
       THEN \E n \in 0..MaxRetryCount : ad_retry_count' = n
       ELSE UNCHANGED ad_retry_count
    /\ IF ad_gl = "None"
       THEN /\ ad_pc' = "connecting"
            /\ ad_attempt' = 0
            /\ ad_result' = "none"
       ELSE /\ ad_pc' = "returned"
            /\ ad_result' = gl_value(ad_gl)
            /\ UNCHANGED ad_attempt
    /\ UNCHANGED <<ad_gl, ad_auth_calls>>
    /\ UNCHANGED <<scd_vars, rt_vars, cl_vars, pg_vars, st_vars, ut_vars,
                   lg_vars, il_vars, nz_vars>>

\* _connect, lines 75-100: one iteration of 'for attempt in
\* range(self.retry_count)', or the end of the range, after which _connect
\* returns and gl returns self._gl (line 66).  Line 78 assigns self._gl
\* before auth() is called and no except clause resets it.
ConnectAttempt ==
    /\ ad_pc = "connecting"
    /\ IF ad_attempt < ad_retry_count
       THEN \E o \in AuthOutcomes :
              /\ ad_auth_calls' = Append(ad_auth_calls, o)
              /\ CASE o = "ok" ->
                     /\ ad_gl' = "authenticated"
                     /\ ad_pc' = "returned"
                     /\ ad_result' = gl_value("authenticated")
                     /\ UNCHANGED ad_attempt
                [] o = "auth_error" ->
                     /\ ad_gl' = "unauthenticated"
                     /\ ad_pc' = "raised"
                     /\ ad_result' = "ConnectionError"
                     /\ UNCHANGED ad_attempt
                [] OTHER ->
                     /\ ad_gl' = "unauthenticated"
                     /\ IF ad_attempt = ad_retry_count - 1
                        THEN /\ ad_pc' = "raised"
                             /\ ad_result' = "ConnectionError"
                             /\ UNCHANGED ad_attempt
                        ELSE /\ ad_attempt' = ad_attempt + 1
                             /\ UNCHANGED <<ad_pc, ad_result>>
       ELSE /\ ad_pc' = "returned"
            /\ ad_result' = gl_value(ad_gl)
            /\ UNCHANGED <<ad_gl, ad_attempt, ad_auth_calls>>
    /\ UNCHANGED <<ad_retry_count, ad_accesses>>
    /\ UNCHANGED <<scd_vars, rt_vars, cl_vars, pg_vars, st_vars, ut_vars,
                   lg_vars, il_vars, nz_vars>>

\* lines 46-52: the client as constructed (retry_count defaults to 3)
InitAdapter ==
    /\ ad_retry_count = 3
    /\ ad_gl = "None"
    /\ ad_pc = "idle"
    /\ ad_attempt = 0
    /\ ad_result = "none"
    /\ ad_accesses = 0
    /\ ad_auth_calls = <<>>

(***************************************************************************)
(* Two extractions interleaved on the same GitLabClient: extract_gitlab_   *)
(* users and extract_gitlab_projects, each inside its own                  *)
(* _fetch_<resource>_with_retry.  The client's attributes the loops read   *)
(* (self._max_retry_attempts, self._retry_on_rate_limit,                   *)
(* self._retry_delay_seconds) are written by the constructor only.         *)
(***************************************************************************)
Calls == {"users", "projects"}

\* the locals of a call that has not started
NotStarted ==
    [pc |-> "idle", attempt |-> 0, outcomes |-> <<>>, sleeps |-> <<>>,
     raised |-> "none"]

\* the attempt number read from a counter kept on the client and advanced
\* by every loop running on it
loop_attempt_on_client(rs, c) ==
    IF \A d \in Calls : rs[d].attempt <= rs[c].attempt
    THEN rs[c].attempt
    ELSE CHOOSE a \in {rs[d].attempt : d \in Calls} :
             \A d \in Calls : rs[d].attempt <= a

\* line 362: 'attempt' is the loop variable of the call's own frame
loop_attempt(rs, c) == rs[c].attempt

\* lines 363-373 and 383-389: one iteration of the for loop at attempt
\* number att for an outcome o of the list call: whether the loop ends,
\* the exception that leaves it and the sleep made
retry_iteration(att, o) ==
    CASE o = "ok" -> [ends |-> TRUE, raised |-> "none", slept |-> <<>>]
      [] o = "get429" /\ retry_on_rate_limit ->
           IF att = max_retry_attempts - 1
           THEN [ends |-> TRUE, raised |-> "APIRateLimitError", slept |-> <<>>]
           ELSE [ends |-> FALSE, raised |-> "none",
                 slept |-> <<retry_delay_seconds * Pow2(att)>>]
      [] o \in {"get429", "get_other"} ->
           [ends |-> TRUE, raised |-> "GitlabGetError", slept |-> <<>>]
      [] OTHER ->
           IF att = max_retry_attempts - 1
           THEN [ends |-> TRUE, raised |-> o, slept |-> <<>>]
           ELSE [ends |-> FALSE, raised |-> "none",
                 slept |-> <<retry_delay_seconds>>]

\* extract_gitlab_<resource> of call c enters its retry loop
ConcurrentStart(c) ==
    /\ retry_state[c].pc = "idle"
    /\ retry_state' = [retry_state EXCEPT ![c].pc = "loop"]
    /\ UNCHANGED schedule
    /\ UNCHANGED <<scd_vars, rt_vars, cl_vars, pg_vars, st_vars, ut_vars,
                   lg_vars, ad_vars, nz_vars>>

\* one iteration of the for loop of call c, the other call being wherever
\* it is; a range that is used up ends the loop on line 375
ConcurrentAttempt(c) ==
    /\ retry_state[c].pc = "loop"
    /\ LET att == loop_attempt(retry_state, c)
       IN IF att < max_retry_attempts
          THEN /\ \E o \in ListOutcomes :
                    LET it == retry_iteration(att, o)
                    IN retry_state' =
                         [retry_state EXCEPT
                            ![c] = [pc |-> IF it.ends THEN "done" ELSE "loop",
                                    attempt |-> IF it.ends THEN att ELSE att + 1,
                                    outcomes |-> Append(@.outcomes, o),
                                    sleeps |-> @.sleeps \o it.slept,
                                    raised |-> it.raised]]
               /\ schedule' = Append(schedule, c)
          ELSE /\ retry_state' = [retry_state EXCEPT
                                    ![c].pc = "done",
                                    ![c].raised = "APIConnectionError"]
               /\ UNCHANGED schedule
    /\ UNCHANGED <<scd_vars, rt_vars, cl_vars, pg_vars, st_vars, ut_vars,
                   lg_vars, ad_vars, nz_vars>>

InitInterleaved ==
    /\ retry_state = [c \in Calls |-> NotStarted]
    /\ schedule = <<>>

(***************************************************************************)
(* GitLabClient._normalize_user_data / _project_data / _group_data         *)
(*                                                                         *)
(* A raw record is [id, name]: name stands for the fields the normalizer   *)
(* copies under their own names.  The clock counts whole seconds, the      *)
(* resolution of the format '%Y-%m-%d %H:%M:%S'.                           *)
(***************************************************************************)
MaxClock == 2      \* the clock is followed for MaxClock seconds
MaxRawLen == 2     \* longest list of raw records normalized

ResourceKinds == {"user", "project", "group"}
RawRecords == [id : {1, 2}, name : {"a", "b"}]
RawLists == SeqsUpTo(RawRecords, MaxRawLen)

\* lines 407, 540, 707: the key the id is stored under
id_key(kind) ==
    CASE kind = "user" -> "user_id"
      [] kind = "project" -> "project_id"
      [] OTHER -> "group_id"

\* lines 405-438, 538-606, 705-723: the normalized record of one raw
\* record; extraction_timestamp is time.strftime(...) of the moment of the
\* call
normalize_record(kind, raw, clock) ==
    [id_key |-> id_key(kind), id |-> raw.id, name |-> raw.name,
     extraction_timestamp |-> clock]

\* lines 391-444, 523-612, 691-729
normalize_data(kind, raws, clock) ==
    [i \in DOMAIN raws |-> normalize_record(kind, raws[i], clock)]

\* a second passes
Tick ==
    /\ nz_clock < MaxClock
    /\ nz_clock' = nz_clock + 1
    /\ UNCHANGED <<nz_pc, nz_raw, nz_first, nz_second>>
    /\ UNCHANGED <<scd_vars, rt_vars, cl_vars, pg_vars, st_vars, ut_vars, lg_vars, ad_vars,
                   il_vars>>

\* a payload is normalized for the first time
NormalizeFirst ==
    /\ nz_pc = "idle"
    /\ \E kind \in ResourceKinds, raws \in RawLists :
         /\ nz_raw' = [kind |-> kind, records |-> raws]
         /\ nz_first' = normalize_data(kind, raws, nz_clock)
    /\ nz_pc' = "once"
    /\ UNCHANGED <<nz_clock, nz_second>>
    /\ UNCHANGED <<scd_vars, rt_vars, cl_vars, pg_vars, st_vars, ut_vars, lg_vars, ad_vars,
                   il_vars>>

\* the same payload is normalized again
NormalizeAgain ==
    /\ nz_pc = "once"
    /\ nz_second' = normalize_data(nz_raw.kind, nz_raw.records, nz_clock)
    /\ nz_pc' = "twice"
    /\ UNCHANGED <<nz_clock, nz_raw, nz_first>>
    /\ UNCHANGED <<scd_vars, rt_vars, cl_vars, pg_vars, st_vars, ut_vars, lg_vars, ad_vars,
                   il_vars>>

InitNormalize ==
    /\ nz_clock = 0
    /\ nz_pc = "idle"
    /\ nz_raw = [kind |-> "user", records |-> <<>>]
    /\ nz_first = <<>>
    /\ nz_second = <<>>

Init ==
    /\ InitSCD /\ InitRetry /\ InitClient /\ InitPag /\ InitStats
    /\ InitUt /\ InitLegacy /\ InitAdapter /\ InitInterleaved
    /\ InitNormalize

\* the GitLab client in its default configuration (lines 121 and 131)
InitDefault ==
    /\ Init
    /\ max_retry_attempts = DEFAULT_GITLAB_MAX_RETRIES
    /\ retry_on_rate_limit = TRUE

\* the GitLab client with the default number of attempts and with none
InitClientConfigs ==
    /\ Init
    /\ max_retry_attempts \in {0, DEFAULT_GITLAB_MAX_RETRIES}
    /\ retry_on_rate_limit = TRUE

NextSCD == Apply

SpecSCD == InitDefault /\ [][NextSCD]_vars

NextSCDRaw == ApplyRaw

SpecSCDRaw == InitDefault /\ [][NextSCDRaw]_vars

NextRetry == StartExtract \/ Attempt \/ LoopExhausted

SpecRetry == Init /\ [][NextRetry]_vars

NextClient ==
    \/ Connect \/ ValidateConnection \/ CloseConnection
    \/ Extract \/ ProjectsGatewayCall \/ UsersGatewayGetUsers
    \/ Attempt \/ LoopExhausted

SpecClient == InitClientConfigs /\ [][NextClient]_vars

NextPag == PagStart \/ PagStep \/ PagReturn \/ PagRaise \/ GetSingle

SpecPag == InitDefault /\ [][NextPag]_vars

NextStats ==
    \/ GetCommitStats \/ GetMergeRequestStats \/ GetIssueStats \/ GetPipelineStats
    \/ GetExtractorCommitStats

SpecStats == InitDefault /\ [][NextStats]_vars

NextUt == UtApply

SpecUt == InitDefault /\ [][NextUt]_vars

NextLegacy == LegacyStart \/ LegacyIterate

SpecLegacy == InitDefault /\ [][NextLegacy]_vars

NextAdapter == GlAccess \/ ConnectAttempt

SpecAdapter == InitDefault /\ [][NextAdapter]_vars

NextInterleaved ==
    \/ \E c \in Calls : ConcurrentStart(c)
    \/ \E c \in Calls : ConcurrentAttempt(c)

SpecInterleaved == InitDefault /\ [][NextInterleaved]_vars

NextNormalize == Tick \/ NormalizeFirst \/ NormalizeAgain

SpecNormalize == InitDefault /\ [][NextNormalize]_vars

Next ==
    \/ NextSCD \/ NextSCDRaw \/ NextRetry \/ NextClient \/ NextPag \/ NextStats
    \/ NextUt \/ NextLegacy \/ NextAdapter \/ NextInterleaved
    \/ NextNormalize

Spec == Init /\ [][Next]_vars

(***************************************************************************)
(* Properties of the retry loop                                            *)
(***************************************************************************)
AllOutcomes(o) == \A i \in DOMAIN outcomes : outcomes[i] = o

\* C4: with max_retries = n and a list operation that fails with a
\* transient error on every attempt, exactly n + 1 attempts are made and
\* then a connection error is raised.
C4_BoundedRetry ==
    (rt_pc = "done" /\ AllOutcomes("transient")) =>
        /\ list_calls = max_retry_attempts + 1
        /\ caller_sees = "APIConnectionError"

\* C5: an authentication failure of the first list attempt ends the call
\* after exactly one attempt, without a wait, and the caller gets an
\* authentication error.
C5_FatalShortCircuit ==
    (rt_pc = "done" /\ resource = "users"
       /\ outcomes # <<>> /\ outcomes[1] = "auth") =>
        /\ list_calls = 1
        /\ sleeps = <<>>
        /\ caller_sees = "APIAuthenticationError"

\* C13: when every attempt of extract_gitlab_users is answered 429 (the
\* client retrying on rate limits), the caller gets an APIRateLimitError,
\* raised once the attempts of the loop are used up.
C13_RateLimitTyped ==
    (rt_pc = "done" /\ resource = "users" /\ retry_on_rate_limit
       /\ outcomes # <<>> /\ AllOutcomes("get429")) =>
        /\ caller_sees = "APIRateLimitError"
        /\ list_calls >= max_retry_attempts

(***************************************************************************)
(* Properties of the client's connection, extract and the gateways         *)
(***************************************************************************)
TypedErrors == {"APIAuthenticationError", "APIRateLimitError", "APIConnectionError"}

\* the remote operations of the last call that failed with an
\* authentication, rate-limit or connection failure
FailedOperations ==
    {i \in DOMAIN net_calls :
        net_calls[i].outcome \in {"auth_error", "auth", "get429",
                                  "other_error", "transient"}}

\* C12: an authentication, rate-limit or connection failure during
\* GitLabUsersGateway.get_users reaches the caller as a typed exception,
\* never as a normal return value.
C12_GatewayFailuresTyped ==
    (call.method = "get_users" /\ FailedOperations # {}) =>
        caller_sees \in TypedErrors

\* C15: the list requests issued for a projects-gateway call that was given
\* a lower bound d ask for that call's resource and carry d under the
\* bound's name in their query parameters.
C15_LowerBoundPassed ==
    (call.method \in ProjectMethods /\ call.bound # NoDate /\ list_calls > 0) =>
        /\ list_request.resource = path_of(call.method)
        /\ list_request.params[bound_of(call.method)] = call.bound

\* C16: extract with a resource_type it does not support raises ValueError
\* and does nothing else: no remote operation, no list request, the
\* connection fields as they were.
C16_UnknownResourceFailsFast ==
    [][(/\ rt_pc \in {"idle", "done"}
        /\ call'.method = "extract"
        /\ call'.kwargs.resource_type \notin ExtractResources \cup {"absent"})
       => (/\ caller_sees' = "ValueError"
           /\ rt_pc' = "done"
           /\ net_calls' = <<>>
           /\ list_calls' = 0
           /\ UNCHANGED <<gitlab_client, connection_status, is_connected>>)]_vars

\* C16 witness: a client that never connected was asked for an unknown
\* resource type, raised ValueError and still has no connection.
C16_Witness ==
    /\ call.method = "extract"
    /\ call.kwargs.resource_type = "bogus"
    /\ caller_sees = "ValueError"
    /\ net_calls = <<>>
    /\ ~gitlab_client
    /\ ~is_connected

\* C20: after a call in which establish_connection raised, is_connected is
\* False, whatever the client's state before the call.
C20_FailedConnectNotConnected ==
    (\E i \in DOMAIN net_calls :
        net_calls[i].op = "auth" /\ net_calls[i].outcome # "ok") =>
        ~is_connected

(***************************************************************************)
(* Properties of the SCD2 histories                                        *)
(***************************************************************************)
KeysOf(rows) == {rows[i].key : i \in DOMAIN rows}

IsOpen(row) == row.end_date = None /\ row.is_current
IsClosed(row) == row.end_date # None /\ ~row.is_current

\* the rows of key k, in the order of the history
RowsOfKey(h, k) == SelectSeq(h, LAMBDA r : r.key = k)

\* stable insertion of row r into a list sorted by effective_date
RECURSIVE InsertByDate(_, _)
InsertByDate(s, r) ==
    IF s = <<>> THEN <<r>>
    ELSE IF s[Len(s)].effective_date <= r.effective_date
         THEN Append(s, r)
         ELSE Append(InsertByDate(SubSeq(s, 1, Len(s) - 1), r), s[Len(s)])

\* rows sorted by effective_date, ties kept in list order (Python's sorted)
RECURSIVE SortByDate(_)
SortByDate(s) ==
    IF s = <<>> THEN <<>>
    ELSE InsertByDate(SortByDate(SubSeq(s, 1, Len(s) - 1)), s[Len(s)])

VersionsOf(h, k) == SortByDate(RowsOfKey(h, k))

OpenCount(h, k) == Cardinality({i \in DOMAIN h : h[i].key = k /\ IsOpen(h[i])})

\* C1: after any sequence of calls from the empty history, with any
\* snapshots, every key has at most one current row (end_date = None,
\* is_current = True).
C1_AtMostOneCurrent == \A k \in Keys : OpenCount(hist, k) <= 1

\* 'now' did not decrease from one call to the next: the rows, which are
\* appended in call order and carry the 'now' of their call, have
\* non-decreasing effective dates.
NowNotDecreasing(h) ==
    \A i, j \in DOMAIN h : i < j => h[i].effective_date <= h[j].effective_date

\* C2: when 'now' never decreased, the rows of every key, sorted by
\* effective_date, chain (end_date[i] = effective_date[i+1]) and exactly one
\* row of the key has end_date = None.
C2_Partition ==
    NowNotDecreasing(hist) =>
        \A k \in KeysOf(hist) :
            LET v == VersionsOf(hist, k)
            IN /\ \A i \in 1..(Len(v) - 1) : v[i].end_date = v[i + 1].effective_date
               /\ Cardinality({i \in DOMAIN v : v[i].end_date = None}) = 1

\* C3: applying the same snapshot a second time returns the history of the
\* first application: no row added, no field of an existing row changed.
C3_Idempotent == hist_again = hist

\* C8: two versions of a key that are adjacent in effective_date order carry
\* different non-temporal values.
C8_NoRedundantVersion ==
    \A k \in KeysOf(hist) :
        LET v == VersionsOf(hist, k)
        IN \A i \in 1..(Len(v) - 1) : v[i].val # v[i + 1].val

\* C9: a row that is closed (end_date set, is_current = False) is left
\* exactly as it is by every later call.
C9_ClosedRowsFrozen ==
    [][\A i \in DOMAIN hist :
         IsClosed(hist[i]) => (i \in DOMAIN hist' /\ hist'[i] = hist[i])]_vars

\* C9 witness: a key whose first version was closed, whose second version
\* was closed by a later call, and whose first version still ends where the
\* second begins.
C9_Witness ==
    \E i, j, l \in DOMAIN hist :
        /\ i < j /\ j < l
        /\ hist[i].key = hist[j].key /\ hist[j].key = hist[l].key
        /\ IsClosed(hist[i]) /\ IsClosed(hist[j]) /\ IsOpen(hist[l])
        /\ hist[i].end_date = hist[j].effective_date
        /\ hist[j].end_date = hist[l].effective_date
        /\ hist[i].end_date < hist[j].end_date

\* the frame of one call: no row of current_data removed, its key, values
\* and effective_date kept, and every field kept when new_data lacks the key
FrameOfCall(current_data, rows, result) ==
    /\ Len(result) >= Len(current_data)
    /\ \A i \in DOMAIN current_data :
         /\ result[i].key = current_data[i].key
         /\ result[i].val = current_data[i].val
         /\ result[i].effective_date = current_data[i].effective_date
         /\ (current_data[i].key \notin KeysOf(rows) => result[i] = current_data[i])

\* C10: whatever snapshot is applied next to a reachable history, the call
\* removes no row of current_data and leaves every row whose key does not
\* occur in new_data unchanged in all its fields.
C10_AbsentKeysUntouched ==
    \A S \in Snapshots, t \in Times :
        FrameOfCall(hist, S, apply_scd_type2(hist, S, t))

\* C10 witness: the history holds an open row of one key and a snapshot
\* without that key makes the call open a version of another key.
C10_Witness ==
    \E S \in Snapshots, t \in Times, i \in DOMAIN hist :
        /\ S # <<>>
        /\ IsOpen(hist[i])
        /\ hist[i].key \notin KeysOf(S)
        /\ Len(apply_scd_type2(hist, S, t)) > Len(hist)
        /\ IsOpen(apply_scd_type2(hist, S, t)[i])

\* C11: a record of new_data without a value in a key field is the only
\* thing a call rejects: the call does not abort, the other records of the
\* snapshot are applied, and no row is stored under a key holding None.
C11_RejectsOnlyBadRecord ==
    /\ scd_exception = "none"
    /\ hist = hist_valid_only
    /\ \A i \in DOMAIN hist : hist[i].key # NullKey

(***************************************************************************)
(* Properties of the paginated get                                         *)
(***************************************************************************)
CeilDiv(a, b) == (a + b - 1) \div b

AllRecords(srv) == [i \in 1..srv.total |-> i]

C7_Finite ==
    /\ requests = [i \in 1..Len(requests) |-> i]
    /\ Len(requests) <= server.total + 1

\* C14: a success status with an empty body is an empty successful result:
\* get returns an empty mapping for a single request and zero records for a
\* paginated one, and raises nothing.
C14_EmptyBodyIsEmptyResult ==
    /\ (pg_pc = "single_done" /\ get_result.request.kind = "response"
           /\ get_result.request.status < 400
           /\ get_result.request.body = "empty") =>
          (get_result.raised = "none" /\ get_result.value = "{}")
    /\ (pg_pc \in {"loop", "done"} /\ server.conv = "empty_body") =>
          yielded = <<>>
    /\ (pg_pc = "done" /\ server.conv = "empty_body") =>
          get_result.raised = "none"

Additions(commit) ==
    IF commit.has_stats /\ commit.additions # NoField THEN commit.additions ELSE 0
Deletions(commit) ==
    IF commit.has_stats /\ commit.deletions # NoField THEN commit.deletions ELSE 0

\* C18: total_additions and total_deletions are the sums of stats.additions
\* and stats.deletions over the fetched commits, a commit without stats or
\* without one of the fields adding zero and still counting in
\* total_commits; net_changes is their difference.
C18_CommitTotals ==
    stats_call = "get_commit_stats" =>
        /\ stats.total_commits = Len(stats_records)
        /\ stats.total_additions = Total(stats_records, Additions)
        /\ stats.total_deletions = Total(stats_records, Deletions)
        /\ stats.net_changes = stats.total_additions - stats.total_deletions

\* C18 witness: three commits with additions 10, 20 and none and deletions
\* 5, 0 and none gave 30 additions, 5 deletions, 3 commits.
C18_Witness ==
    /\ stats_call = "get_commit_stats"
    /\ Len(stats_records) = 3
    /\ stats_records[1].additions = 10 /\ stats_records[1].deletions = 5
    /\ stats_records[2].additions = 20 /\ stats_records[2].deletions = 0
    /\ ~stats_records[3].has_stats
    /\ stats.total_commits = 3
    /\ stats.total_additions = 30
    /\ stats.total_deletions = 5
    /\ stats.net_changes = 25

\* avg is total / count, or 0 when count = 0
IsAverage(avg, total, count) ==
    IF count = 0 THEN avg.num = 0 ELSE avg.num * count = total * avg.den

\* C19: a duration average divides the total duration by the number of
\* records that have the timestamps (or the duration) it is computed from,
\* while the counts take in every record.
C19_AveragesOverTimedRecords ==
    /\ stats_call = "get_merge_request_stats" =>
         LET timed(mr) == mr.state = "merged" /\ mr.created_at # NoField
                             /\ mr.merged_at # NoField
             hours(mr) == IF timed(mr) THEN mr.merged_at - mr.created_at ELSE 0
         IN /\ stats.total_mrs = Len(stats_records)
            /\ stats.merged_mrs = Count(stats_records, LAMBDA mr : mr.state = "merged")
            /\ IsAverage(stats.avg_time_to_merge, Total(stats_records, hours),
                         Count(stats_records, timed))
    /\ stats_call = "get_issue_stats" =>
         LET timed(issue) == issue.state = "closed" /\ issue.created_at # NoField
                                /\ issue.closed_at # NoField
             hours(issue) == IF timed(issue)
                             THEN issue.closed_at - issue.created_at ELSE 0
         IN /\ stats.total_issues = Len(stats_records)
            /\ stats.closed_issues =
                   Count(stats_records, LAMBDA issue : issue.state = "closed")
            /\ IsAverage(stats.avg_time_to_close, Total(stats_records, hours),
                         Count(stats_records, timed))
    /\ stats_call = "get_pipeline_stats" =>
         LET timed(pl) == pl.status \in {"success", "failed"}
                             /\ pl.duration # NoField
             seconds(pl) == IF timed(pl) THEN pl.duration ELSE 0
         IN /\ stats.total_pipelines = Len(stats_records)
            /\ IsAverage(stats.avg_duration, Total(stats_records, seconds),
                         Count(stats_records, timed))

\* C21: a call of apply_scd_type2 leaves the list passed as current_data
\* and each of its rows as they were, whether it returns or raises: the
\* holder of the input sees no closed version whose successor it was not
\* given.
C21_InputUntouched == [][current_data_seen' = hist]_vars

\* C30: in every history built from the empty one, a row is current
\* exactly when its end_date is None.
C30_FlagMirrorsEndDate ==
    \A i \in DOMAIN hist : hist[i].is_current <=> (hist[i].end_date = None)

\* C30 witness: a history holding a closed version and the current version
\* that replaced it.
C30_Witness ==
    \E i, j \in DOMAIN hist :
        /\ hist[i].key = hist[j].key
        /\ ~hist[i].is_current /\ hist[i].end_date # None
        /\ hist[j].is_current /\ hist[j].end_date = None
        /\ hist[j].effective_date = hist[i].end_date

\* C24: the wait after a rate-limited attempt is retry_delay (the server of
\* the model advertises no delay of its own), whatever the attempt number.
C24_RateLimitWaitConstant ==
    \A i \in DOMAIN sleeps :
        (retry_on_rate_limit /\ outcomes[i] = "get429") =>
            sleeps[i] = retry_delay_seconds

(***************************************************************************)
(* Properties of UsersTransformer.apply_scd_type2                          *)
(***************************************************************************)
Range(f) == {f[i] : i \in DOMAIN f}

DistinctKeys(records) ==
    \A i, j \in DOMAIN records : records[i].key = records[j].key => i = j

\* C22: with the returned list fed back as existing_records, applying the
\* snapshot of the call before once more returns the same versions.
C22_UnchangedSnapshotKeepsHistory ==
    [][(/\ ut_calls' = ut_calls + 1
        /\ ut_calls > 0
        /\ ut_existing' = ut_historized
        /\ ut_new' = ut_new
        /\ DistinctKeys(ut_new))
       => Range(ut_historized') = Range(ut_historized)]_vars

\* the open versions of key k in a list of historized records
OpenVersions(records, k) ==
    {i \in DOMAIN records : records[i].key = k /\ records[i].valid_to = None}

\* C23: a version that is closed when the call starts is as it was when the
\* call ends, and a new record that agrees with the one open version of its
\* key opens no version, in whatever order existing_records is passed.
C23_OnlyOpenVersionCompared ==
    /\ \A i \in DOMAIN ut_existing :
          ut_existing[i].valid_to # None => ut_existing_seen[i] = ut_existing[i]
    /\ \A n \in DOMAIN ut_new :
          LET O == OpenVersions(ut_existing, ut_new[n].key)
          IN (Cardinality(O) = 1 /\ DistinctKeys(ut_new)
                /\ \A i \in O : ut_existing[i].state = ut_new[n].state)
             => \A j \in DOMAIN ut_historized :
                   ut_historized[j].key # ut_new[n].key

C26_GlAuthenticatedOrRaises ==
    /\ ad_pc = "returned" => ad_result = "authenticated_client"
    /\ ad_pc = "raised" => ad_result = "ConnectionError"

(***************************************************************************)
(* Properties of interleaved extractions                                   *)
(***************************************************************************)
\* the sleeps of a loop that meets the given outcomes with no other call
\* on the client, from attempt number att on
RECURSIVE SleepsAlone(_, _)
SleepsAlone(os, att) ==
    IF os = <<>> THEN <<>>
    ELSE LET it == retry_iteration(att, Head(os))
         IN it.slept \o (IF it.ends THEN <<>> ELSE SleepsAlone(Tail(os), att + 1))

\* C27: the delays and the attempts of a call are those its own failures
\* give when it runs alone, whatever the other call on the client did in
\* between.
C27_RetryStateLocal ==
    \A c \in Calls :
        /\ retry_state[c].sleeps = SleepsAlone(retry_state[c].outcomes, 0)
        /\ Len(retry_state[c].outcomes) <= max_retry_attempts
        /\ retry_state[c].pc = "loop" =>
              retry_state[c].attempt = Len(retry_state[c].outcomes)

\* C27 witness: the users call was rate-limited three times and the
\* projects call once, their requests alternating; the users call waited
\* 5 then 10 and ended in APIRateLimitError, the projects call waited 5.
C27_Witness ==
    /\ schedule = <<"users", "projects", "users", "users">>
    /\ retry_state["users"].outcomes = <<"get429", "get429", "get429">>
    /\ retry_state["users"].sleeps = <<5, 10>>
    /\ retry_state["users"].raised = "APIRateLimitError"
    /\ retry_state["projects"].outcomes = <<"get429">>
    /\ retry_state["projects"].sleeps = <<5>>
    /\ retry_state["projects"].pc = "loop"

(***************************************************************************)
(* Properties of the normalizers                                           *)
(***************************************************************************)
\* C28: normalizing the same raw records twice gives the same normalized
\* records, whenever the two normalizations are made.
C28_NormalizeDeterministic ==
    nz_pc = "twice" => nz_second = nz_first

\* C29: lines_changed of GitLabStatsExtractor.get_commit_stats holds the
\* sums of the additions and of the deletions of the commits of the window,
\* a missing value counting as zero, and their sum as total.
C29_LinesChangedSummed ==
    stats_call = "extractor_get_commit_stats" =>
        /\ stats.lines_changed.additions = Total(stats_records, Additions)
        /\ stats.lines_changed.deletions = Total(stats_records, Deletions)
        /\ stats.lines_changed.total =
              stats.lines_changed.additions + stats.lines_changed.deletions

====
